---- MODULE Spec2Model ----
(***************************************************************************)
(* Model of app/main.py of the image-processing API: the /watermark        *)
(* handler add_watermark, one request at a time (requests share no state). *)
(*                                                                         *)
(* Conventions                                                             *)
(*   - opacity is held in hundredths (50 stands for 0.5);                  *)
(*   - the float gaps and loop positions are IEEE-754 doubles, held        *)
(*     exactly and rounded as the hardware rounds them;                    *)
(*   - Optional[int] is a sequence of length 0 (None) or 1;                *)
(*   - the text engine is external: a string's measured size (tw, th),     *)
(*     the installed fonts and the step at which a library call raises are *)
(*     part of the environment env chosen with the request;                *)
(*   - a glyph run is rasterised as its solid bounding box, and the        *)
(*     rotation resamples to the nearest source pixel.                     *)
(***************************************************************************)
EXTENDS Integers, Sequences, FiniteSets, TLC

\* ------------------------------------------------------------------ bounds
MaxDim == 3
BigDim == 20
MaxText == 2
MaxSeed == 1
MaxDraws == 3

\* ------------------------------------------------------- program constants
ALLOWED_FORMATS == {"avif", "webp", "png", "jpg", "jpeg"}
FontCandidates == <<"LiberationSans-Regular", "DejaVuSans", "arial">>
base_spacing == 45

\* ------------------------------------------------------------------ helpers
Max2(a, b) == IF a >= b THEN a ELSE b

\* str.lower() on the format strings the requests use
Lower(s) ==
  CASE s = "JPG" -> "jpg"
    [] s = "JPEG" -> "jpeg"
    [] s = "PNG" -> "png"
    [] OTHER -> s

\* int(math.sqrt(n)) for n >= 0: the float root truncated towards zero
IntSqrt(n) == CHOOSE r \in 0..n : r * r <= n /\ (r + 1) * (r + 1) > n

None == <<>>
Some(n) == <<n>>

\* --------------------------------------------------------- float arithmetic
\* The gaps and loop positions are Python floats (IEEE-754 doubles).  A double
\* x >= 0 is held exactly, as the natural number x * 2^54 written in limbs of
\* 15 bits, least significant first; every double in [1/2, 2^14) is such a
\* number.  An operation computes the exact result and rounds it to 53
\* significant bits, ties to even.
Base == 2 ^ 15
BigZero == <<0, 0, 0, 0, 0>>
BigOne == <<1, 0, 0, 0, 0>>
Limbs == 1..Len(BigZero)
MantissaBits == 52 + 1

RECURSIVE CarryFrom(_, _, _)
CarryFrom(raw, i, c) ==
  IF i > Len(raw) THEN <<>>
  ELSE <<(raw[i] + c) % Base>> \o CarryFrom(raw, i + 1, (raw[i] + c) \div Base)

BigAdd(a, b) == CarryFrom([i \in Limbs |-> a[i] + b[i]], 1, 0)

\* a * k for a natural number k < Base
BigMul(a, k) == CarryFrom([i \in Limbs |-> a[i] * k], 1, 0)

BigLess(a, b) == \E i \in Limbs : a[i] < b[i] /\ \A j \in (i + 1)..Len(BigZero) : a[j] = b[j]

\* the remainder left by the limbs i.. of a when a is divided by s, 0 < s <= Base
RECURSIVE RemFrom(_, _, _)
RemFrom(a, s, i) == IF i > Len(a) THEN 0 ELSE (RemFrom(a, s, i + 1) * Base + a[i]) % s

BigDiv(a, s) == [i \in Limbs |-> (RemFrom(a, s, i + 1) * Base + a[i]) \div s]
BigMod(a, s) == RemFrom(a, s, 1)

\* the number of significant bits
BitLen(a) ==
  IF a = BigZero THEN 0
  ELSE LET top == CHOOSE i \in Limbs : a[i] # 0 /\ \A j \in (i + 1)..Len(BigZero) : a[j] = 0
       IN  15 * (top - 1) + (CHOOSE b \in 1..15 : 2 ^ (b - 1) <= a[top] /\ a[top] < 2 ^ b)

\* n rounded to 53 significant bits; sticky says that the exact value lies
\* strictly above n (and below n + 1)
Round53(n, sticky) ==
  IF BitLen(n) <= MantissaBits THEN n
  ELSE LET r == BitLen(n) - MantissaBits
           q == BigDiv(n, 2 ^ r)
           rem == BigMod(n, 2 ^ r)
           up == rem > 2 ^ (r - 1) \/ (rem = 2 ^ (r - 1) /\ (sticky \/ q[1] % 2 = 1))
       IN  BigMul(IF up THEN BigAdd(q, BigOne) ELSE q, 2 ^ r)

\* float(k) for an int 0 <= k < 2^14
FromInt(k) == BigMul(<<0, 0, 0, 2 ^ 9, 0>>, k)

\* int(x): the integer part
Floor(x) == x[4] \div 2 ^ 9 + x[5] * 2 ^ 6

\* p / q of two ints, p >= q / 2 > 0
FDiv(p, q) == Round53(BigDiv(FromInt(p), q), BigMod(FromInt(p), q) # 0)

\* k * x of an int and a float
FMul(k, x) == Round53(BigMul(x, k), FALSE)

FAdd(x, y) == Round53(BigAdd(x, y), FALSE)

\* x / 2 for x >= 1
FHalf(x) == BigDiv(x, 2)

FLess(x, y) == BigLess(x, y)

FMax(x, y) == IF BigLess(x, y) THEN y ELSE x

\* x // y of floats x >= 0, y > 1: the floor of the exact quotient
FloorDiv(x, y) ==
  CHOOSE n \in 0..Floor(x) : ~BigLess(x, BigMul(y, n)) /\ BigLess(x, BigMul(y, n + 1))

\* ----------------------------------------------------- the decoded upload
Shade(k) == (k % 3) * 100 + 10
AlphaLevel(k) == CASE k % 3 = 0 -> 0 [] k % 3 = 1 -> 128 [] OTHER -> 255

Pixels(w, h) == (0..(w - 1)) \X (0..(h - 1))

\* pixel data of the image an upload decodes to, in the upload's own mode
DecodedPixel(u, x, y) ==
  CASE u.mode = "L" -> <<Shade(x + y + u.seed)>>
    [] u.mode = "RGB" ->
         <<Shade(x + y + u.seed), Shade(x + 2 * y + u.seed + 1), Shade(2 * x + y + u.seed + 2)>>
    [] OTHER ->
         <<Shade(x + y + u.seed), Shade(x + 2 * y + u.seed + 1), Shade(2 * x + y + u.seed + 2),
           AlphaLevel(x + y + u.seed)>>

NoImage == [w |-> 0, h |-> 0, mode |-> "", px |-> <<>>]

\* Image.open(BytesIO(contents)) on readable bytes
ImageOpen(u) ==
  [w |-> u.w, h |-> u.h, mode |-> u.mode,
   px |-> [p \in Pixels(u.w, u.h) |-> DecodedPixel(u, p[1], p[2])]]

\* ------------------------------------------------------------- validation
FormatInvalid(r) == Lower(r.format) \notin ALLOWED_FORMATS
QualityInvalid(r) == ~(1 <= r.quality /\ r.quality <= 100)
\* a check that forgets the upper end of the range
OpacityInvalidNoUpper(r) == r.opacity < 0

OpacityInvalid(r) == ~(0 <= r.opacity /\ r.opacity <= 100)
DensityInvalid(r) == ~(1 <= r.density /\ r.density <= 50)
FontSizeInvalid(r) == r.font_size # None /\ r.font_size[1] <= 0

RequestInvalid(r) ==
  \/ FormatInvalid(r)
  \/ QualityInvalid(r)
  \/ OpacityInvalid(r)
  \/ DensityInvalid(r)
  \/ FontSizeInvalid(r)

\* ------------------------------------------------------------ the requests
NominalReq ==
  [format |-> "png", quality |-> 85, opacity |-> 50, density |-> 15, font_size |-> Some(2)]
NominalUpload == [ok |-> TRUE, w |-> 2, h |-> 1, mode |-> "RGB", seed |-> 0]
CorruptUpload == [ok |-> FALSE, w |-> 0, h |-> 0, mode |-> "", seed |-> 0]
AllFonts == {FontCandidates[i] : i \in 1..Len(FontCandidates)}
NominalEnv ==
  [installed |-> AllFonts, defaultOK |-> TRUE, sizeZero |-> "IOError",
   tw |-> 2, th |-> 1, failAt |-> "none"]

FailPoints == {"none", "read", "canvas", "rotate", "crop", "paste", "composite", "convert", "save"}
Dims == (1..MaxDim) \cup {BigDim}
Densities == {1, 15, 37, 38, 50}

Scenario(r, u, e) == [req |-> r, upload |-> u, env |-> e]

\* every combination of boundary and invalid parameter values
ValidationScenarios ==
  { Scenario([format |-> f, quality |-> q, opacity |-> o, density |-> d, font_size |-> s],
             u, NominalEnv) :
      f \in {"png", "JPG", "webp", "avif", "gif"}, q \in {0, 1, 100, 101},
      o \in {-1, 0, 100, 101}, d \in {0, 1, 50, 51},
      s \in {None, Some(-1), Some(0), Some(1)}, u \in {NominalUpload, CorruptUpload} }

\* image sizes, with and without an explicit font size, at the sparsest layout
GeometryScenarios ==
  { Scenario([NominalReq EXCEPT !.font_size = s, !.density = 1],
             [NominalUpload EXCEPT !.w = w, !.h = h],
             [NominalEnv EXCEPT !.sizeZero = z]) :
      s \in {None, Some(2)}, w \in Dims, h \in Dims, z \in {"IOError", "ValueError"} }

\* densities and measured text sizes
LayoutScenarios ==
  { Scenario([NominalReq EXCEPT !.density = d],
             [NominalUpload EXCEPT !.w = w, !.h = h],
             [NominalEnv EXCEPT !.tw = tw, !.th = th]) :
      d \in Densities, w \in 1..MaxDim, h \in 1..MaxDim, tw \in 0..MaxText, th \in 0..MaxText }

\* every density of the documented range
DensityScenarios ==
  { Scenario([NominalReq EXCEPT !.density = d], NominalUpload, NominalEnv) : d \in 1..50 }

\* every opacity of the documented range, in hundredths
OpacityScenarios ==
  { Scenario([NominalReq EXCEPT !.opacity = o], NominalUpload, NominalEnv) : o \in 0..100 }

\* pixel content: colour modes, opacity and output formats
PixelScenarios ==
  { Scenario([NominalReq EXCEPT !.opacity = o, !.format = f, !.density = 50],
             [NominalUpload EXCEPT !.w = w, !.h = h, !.mode = m, !.seed = k],
             NominalEnv) :
      o \in {0, 50, 100}, f \in {"png", "jpg", "JPEG"},
      w \in 1..MaxDim, h \in 1..MaxDim, m \in {"L", "RGB", "RGBA"}, k \in 0..MaxSeed }

\* the fonts that are installed
FontScenarios ==
  { Scenario([NominalReq EXCEPT !.font_size = s], NominalUpload,
             [NominalEnv EXCEPT !.installed = i, !.defaultOK = b, !.sizeZero = z]) :
      s \in {None, Some(2)}, i \in SUBSET AllFonts, b \in BOOLEAN,
      z \in {"IOError", "ValueError"} }

\* a library call that raises
FaultScenarios ==
  { Scenario([NominalReq EXCEPT !.format = f], u, [NominalEnv EXCEPT !.failAt = x]) :
      f \in {"png", "jpg"}, u \in {NominalUpload, CorruptUpload}, x \in FailPoints }

Scenarios ==
  ValidationScenarios \cup GeometryScenarios \cup LayoutScenarios \cup DensityScenarios
    \cup OpacityScenarios \cup PixelScenarios \cup FontScenarios \cup FaultScenarios

\* -------------------------------------------------------------------- state
VARIABLES
  req,             \* the form parameters of the request
  image,           \* the uploaded file
  env,             \* fonts, text metrics and failures of the libraries
  pc,              \* position in add_watermark
  status,          \* HTTP status of the response, 0 while none was sent
  body,            \* the response's image bytes, <<>> when it carries none
  steps,           \* the steps of the handler that have run
  contents, img, diagonal, canvas_size, canvas,
  font_size, font, tried, text_width, text_height,
  horizontal_gap, vertical_gap, start_x, start_y,
  rotated_canvas, region, overlay, watermarked, output,
  b64data,         \* convert_image_base64: the base64 text being decoded
  cropped_img      \* crop_image: the cropped image

vars ==
  <<req, image, env, pc, status, body, steps, contents, img, diagonal, canvas_size, canvas,
    font_size, font, tried, text_width, text_height, horizontal_gap, vertical_gap,
    start_x, start_y, rotated_canvas, region, overlay, watermarked, output, b64data,
    cropped_img>>

\* the locals of the other handlers, which add_watermark leaves alone
elsewhere == <<b64data, cropped_img>>

locals ==
  <<contents, img, diagonal, canvas_size, canvas, font_size, font, tried, text_width,
    text_height, horizontal_gap, vertical_gap, start_x, start_y, rotated_canvas, region,
    overlay, watermarked, output>>

Init ==
  /\ \E s \in Scenarios : req = s.req /\ image = s.upload /\ env = s.env
  /\ pc = "validate"
  /\ status = 0
  /\ body = <<>>
  /\ steps = {}
  /\ contents = <<>>
  /\ img = NoImage
  /\ diagonal = 0
  /\ canvas_size = <<0, 0>>
  /\ canvas = <<>>
  /\ font_size = req.font_size
  /\ font = ""
  /\ tried = <<>>
  /\ text_width = 0
  /\ text_height = 0
  /\ horizontal_gap = BigZero
  /\ vertical_gap = BigZero
  /\ start_x = BigZero
  /\ start_y = BigZero
  /\ rotated_canvas = NoImage
  /\ region = NoImage
  /\ overlay = NoImage
  /\ watermarked = NoImage
  /\ output = <<>>
  /\ b64data = <<>>
  /\ cropped_img = NoImage


\* ------------------------------------------------------------ the geometry
\* the root rounded up instead of truncated
DiagonalCeil(w, h) == IF IntSqrt(w * w + h * h) * IntSqrt(w * w + h * h) = w * w + h * h
                      THEN IntSqrt(w * w + h * h) ELSE IntSqrt(w * w + h * h) + 1

\* int(math.sqrt(img.width**2 + img.height**2))
Diagonal(w, h) == IntSqrt(w * w + h * h)

\* a canvas of the diagonal, not of twice the diagonal
CanvasSizeSingle(w, h) == <<Diagonal(w, h), Diagonal(w, h)>>

CanvasSize(w, h) == <<Diagonal(w, h) * 2, Diagonal(w, h) * 2>>

\* font_size when the request gives none
AutoFontSize(w, h) == Max2(w, h) \div 20

ResolvedFontSize(fs, w, h) == IF fs = None THEN Some(AutoFontSize(w, h)) ELSE fs

\* the box handed to rotated_canvas.crop: <<left, upper, right, lower>>
CropBox(d, w, h) == <<d - w \div 2, d - h \div 2, d + w \div 2, d + h \div 2>>

\* -------------------------------------------------------------- the layout
\* the literal 1.2
OnePointTwo == FDiv(12, 10)

\* spacing_factor = base_spacing / density
SpacingFactor(d) == FDiv(base_spacing, d)

\* the gap without its floor of 1.2 times the text size
GapNoFloor(t, d) == FMul(t, SpacingFactor(d))

\* max(t * spacing_factor, t * 1.2)
Gap(t, d) == FMax(FMul(t, SpacingFactor(d)), FMul(t, OnePointTwo))

\* horizontal_gap / 2 if (start_y // vertical_gap) % 2 == 0 else 0
RowOffset(y, vgap, hgap) == IF FloorDiv(y, vgap) % 2 = 0 THEN FHalf(hgap) ELSE BigZero

\* the transparency taken for the opacity
InkAlphaInverted(o) == (255 * (100 - o)) \div 100

\* the number of draw.text calls of the two loops for a canvas of the given
\* size, a text measuring tw x th and density d
RECURSIVE RowTiles(_, _, _)
RowTiles(x, hgap, width) ==
  IF FLess(x, FromInt(width)) THEN 1 + RowTiles(FAdd(x, hgap), hgap, width) ELSE 0

RECURSIVE TilesFrom(_, _, _, _)
TilesFrom(y, hgap, vgap, size) ==
  IF FLess(y, FromInt(size[2]))
  THEN RowTiles(RowOffset(y, vgap, hgap), hgap, size[1]) + TilesFrom(FAdd(y, vgap), hgap, vgap, size)
  ELSE 0

TileCount(size, tw, th, d) == TilesFrom(BigZero, Gap(tw, d), Gap(th, d), size)

\* the product rounded to the nearest level instead of truncated
InkAlphaRounded(o) == (255 * o + 50) \div 100

\* int(255 * opacity)
InkAlpha(o) == (255 * o) \div 100

Fill(o) == <<255, 255, 255, InkAlpha(o)>>

\* ------------------------------------------------------------- the pixels
Transparent == <<255, 255, 255, 0>>

\* the canvas after the draw calls in draws: a text of measured size tw x th
\* drawn at (x, y) inks the box of that size whose corner is the pixel of (x, y)
Covers(t, x, y, tw, th) ==
  /\ Floor(t.x) <= x /\ x < Floor(t.x) + tw
  /\ Floor(t.y) <= y /\ y < Floor(t.y) + th

CanvasPixel(draws, x, y, tw, th) ==
  LET hits == {i \in 1..Len(draws) : Covers(draws[i], x, y, tw, th)}
  IN  IF hits = {} THEN Transparent
      ELSE draws[CHOOSE i \in hits : \A j \in hits : j <= i].fill

\* canvas.rotate(45, expand=False) about the canvas centre: the source pixel of
\* the output pixel (x, y), with cos 45 = sin 45 = 7071/10000
RotateSource(size, x, y) ==
  LET dx == 2 * x + 1 - size[1]
      dy == 2 * y + 1 - size[2]
  IN  << (size[1] * 10000 + 7071 * (dx - dy)) \div 20000,
         (size[2] * 10000 + 7071 * (dx + dy)) \div 20000 >>

InCanvas(size, p) == 0 <= p[1] /\ p[1] < size[1] /\ 0 <= p[2] /\ p[2] < size[2]

Rotated(draws, size, tw, th) ==
  [w |-> size[1], h |-> size[2], mode |-> "RGBA",
   px |-> [p \in Pixels(size[1], size[2]) |->
             LET s == RotateSource(size, p[1], p[2])
             IN  IF InCanvas(size, s) THEN CanvasPixel(draws, s[1], s[2], tw, th)
                 ELSE <<0, 0, 0, 0>>]]

\* im.crop(box) of a box inside the image
Crop(im, box) ==
  [w |-> box[3] - box[1], h |-> box[4] - box[2], mode |-> im.mode,
   px |-> [p \in Pixels(box[3] - box[1], box[4] - box[2]) |->
             im.px[<<p[1] + box[1], p[2] + box[2]>>]]]

\* division by 255 as the imaging library rounds it
Div255(a) == (((a + 128) \div 256) + a + 128) \div 256

\* one pixel of paste(src, mask=src): every band is blended by the source alpha
Blend(dst, src) == [c \in 1..4 |-> Div255(dst[c] * (255 - src[4]) + src[c] * src[4])]

\* Image.new('RGBA', size, (255, 255, 255, 0)) then paste(region, (0, 0), region)
Paste(w, h, reg) ==
  [w |-> w, h |-> h, mode |-> "RGBA",
   px |-> [p \in Pixels(w, h) |->
             IF p[1] < reg.w /\ p[2] < reg.h THEN Blend(Transparent, reg.px[p])
             ELSE Transparent]]

\* img.convert('RGBA')
ToRGBA(mode, v) ==
  CASE mode = "L" -> <<v[1], v[1], v[1], 255>>
    [] mode = "RGB" -> <<v[1], v[2], v[3], 255>>
    [] OTHER -> v

ConvertRGBA(im) ==
  [w |-> im.w, h |-> im.h, mode |-> "RGBA",
   px |-> [p \in Pixels(im.w, im.h) |-> ToRGBA(im.mode, im.px[p])]]

\* one pixel of Image.alpha_composite(dst, src): src over dst
Over(dst, src) ==
  IF src[4] = 0 THEN dst
  ELSE LET blend == dst[4] * (255 - src[4])
           outa == src[4] * 255 + blend
           coef1 == (src[4] * 255 * 255 * 128) \div outa
           coef2 == 255 * 128 - coef1
           Band(c) == (((src[c] * coef1 + dst[c] * coef2 + 128 * 128) \div 256
                          + src[c] * coef1 + dst[c] * coef2 + 128 * 128) \div 256) \div 128
       IN  <<Band(1), Band(2), Band(3), (((outa + 128) \div 256) + outa + 128) \div 256>>

AlphaComposite(base, over) ==
  [w |-> base.w, h |-> base.h, mode |-> "RGBA",
   px |-> [p \in Pixels(base.w, base.h) |-> Over(base.px[p], over.px[p])]]

\* watermarked.convert('RGB'): the alpha band is dropped
ToRGB(v) == <<v[1], v[2], v[3]>>

ConvertRGB(im) ==
  [w |-> im.w, h |-> im.h, mode |-> "RGB", px |-> [p \in Pixels(im.w, im.h) |-> ToRGB(im.px[p])]]

IsJpeg(f) == Lower(f) \in {"jpg", "jpeg"}


\* the bytes the codec writes for an image: the image under the codec of the format
Encode(im, f) ==
  <<[codec |-> CASE IsJpeg(f) -> "JPEG"
                 [] Lower(f) = "png" -> "PNG"
                 [] Lower(f) = "webp" -> "WEBP"
                 [] OTHER -> "AVIF",
     image |-> im]>>

\* ------------------------------------------------------------- the handler
inputs == <<req, image, env>>

\* a handler that answers 200 with whatever has been encoded so far
AbortSilent ==
  /\ pc' = "done"
  /\ status' = 200
  /\ body' = output
  /\ UNCHANGED locals

\* except Exception as e: raise HTTPException(status_code=500, ...)
Abort ==
  /\ pc' = "done"
  /\ status' = 500
  /\ body' = <<>>
  /\ UNCHANGED locals

\* the five parameter checks that precede the try block
Validate ==
  /\ pc = "validate"
  /\ steps' = steps \cup {"validate"}
  /\ UNCHANGED elsewhere
  /\ IF RequestInvalid(req)
     THEN pc' = "done" /\ status' = 400 /\ body' = <<>>
     ELSE pc' = "read" /\ UNCHANGED <<status, body>>
  /\ UNCHANGED <<inputs, locals>>

\* contents = await image.read()
Read ==
  /\ pc = "read"
  /\ steps' = steps \cup {"read"}
  /\ UNCHANGED elsewhere
  /\ IF env.failAt = "read" THEN Abort
     ELSE
       /\ contents' = image
       /\ pc' = "open"
       /\ UNCHANGED <<status, body, img, diagonal, canvas_size, canvas, font_size, font,
              tried, text_width, text_height, horizontal_gap, vertical_gap, start_x, start_y,
              rotated_canvas, region, overlay, watermarked, output>>
  /\ UNCHANGED inputs

\* img = Image.open(BytesIO(contents))
Open ==
  /\ pc = "open"
  /\ steps' = steps \cup {"open"}
  /\ UNCHANGED elsewhere
  /\ IF ~contents.ok THEN Abort
     ELSE
       /\ img' = ImageOpen(contents)
       /\ pc' = "canvas"
       /\ UNCHANGED <<status, body, contents, diagonal, canvas_size, canvas, font_size,
              font, tried, text_width, text_height, horizontal_gap, vertical_gap, start_x,
              start_y, rotated_canvas, region, overlay, watermarked, output>>
  /\ UNCHANGED inputs

\* diagonal, canvas_size and the transparent canvas with its ImageDraw
NewCanvas ==
  /\ pc = "canvas"
  /\ steps' = steps \cup {"canvas"}
  /\ UNCHANGED elsewhere
  /\ IF env.failAt = "canvas" THEN Abort
     ELSE
       /\ diagonal' = Diagonal(img.w, img.h)
       /\ canvas_size' = CanvasSize(img.w, img.h)
       /\ canvas' = <<>>
       /\ pc' = "fontsize"
       /\ UNCHANGED <<status, body, contents, img, font_size, font, tried, text_width,
              text_height, horizontal_gap, vertical_gap, start_x, start_y, rotated_canvas,
              region, overlay, watermarked, output>>
  /\ UNCHANGED inputs

\* if font_size is None: font_size = max(img.width, img.height) // 20
FontSize ==
  /\ pc = "fontsize"
  /\ steps' = steps \cup {"fontsize"}
  /\ UNCHANGED elsewhere
  /\ font_size' = ResolvedFontSize(font_size, img.w, img.h)
  /\ pc' = "truetype"
  /\ UNCHANGED <<status, body, contents, img, diagonal, canvas_size, canvas, font,
       tried, text_width, text_height, horizontal_gap, vertical_gap, start_x, start_y,
       rotated_canvas, region, overlay, watermarked, output>>
  /\ UNCHANGED inputs

\* one pass of the loop over the font candidates: ImageFont.truetype raises
\* IOError for a font that is not installed (absorbed: continue), and for a size
\* of 0 either IOError or, in newer releases of the library, ValueError
TrueType ==
  /\ pc = "truetype"
  /\ steps' = steps \cup {"truetype"}
  /\ UNCHANGED elsewhere
  /\ LET name == FontCandidates[Len(tried) + 1]
     IN  IF font_size[1] <= 0 /\ env.sizeZero = "ValueError" THEN Abort
         ELSE /\ tried' = Append(tried, name)
              /\ font' = IF name \in env.installed /\ font_size[1] > 0 THEN name ELSE font
              /\ pc' = IF name \in env.installed /\ font_size[1] > 0 THEN "measure"
                       ELSE IF Len(tried) + 1 = Len(FontCandidates) THEN "default"
                       ELSE "truetype"
              /\ UNCHANGED <<status, body, contents, img, diagonal, canvas_size, canvas,
                             font_size, text_width, text_height, horizontal_gap, vertical_gap,
                             start_x, start_y, rotated_canvas, region, overlay, watermarked,
                             output>>
  /\ UNCHANGED inputs

\* if font is None: font = ImageFont.load_default()
LoadDefault ==
  /\ pc = "default"
  /\ steps' = steps \cup {"default"}
  /\ UNCHANGED elsewhere
  /\ IF ~env.defaultOK THEN Abort
     ELSE
       /\ font' = "default"
       /\ pc' = "measure"
       /\ UNCHANGED <<status, body, contents, img, diagonal, canvas_size, canvas, font_size,
              tried, text_width, text_height, horizontal_gap, vertical_gap, start_x, start_y,
              rotated_canvas, region, overlay, watermarked, output>>
  /\ UNCHANGED inputs

\* textbbox of the text in the font: text_width, text_height
Measure ==
  /\ pc = "measure"
  /\ steps' = steps \cup {"measure"}
  /\ UNCHANGED elsewhere
  /\ text_width' = env.tw
  /\ text_height' = env.th
  /\ pc' = "gaps"
  /\ UNCHANGED <<status, body, contents, img, diagonal, canvas_size, canvas, font_size,
       font, tried, horizontal_gap, vertical_gap, start_x, start_y, rotated_canvas,
       region, overlay, watermarked, output>>
  /\ UNCHANGED inputs

\* spacing_factor, horizontal_gap, vertical_gap and start_y = 0
Gaps ==
  /\ pc = "gaps"
  /\ steps' = steps \cup {"gaps"}
  /\ UNCHANGED elsewhere
  /\ horizontal_gap' = Gap(text_width, req.density)
  /\ vertical_gap' = Gap(text_height, req.density)
  /\ start_y' = BigZero
  /\ pc' = "row"
  /\ UNCHANGED <<status, body, contents, img, diagonal, canvas_size, canvas, font_size,
       font, tried, text_width, text_height, start_x, rotated_canvas, region, overlay,
       watermarked, output>>
  /\ UNCHANGED inputs

\* the head of the outer loop: while start_y < canvas_size[1], then offset and
\* start_x; start_y // vertical_gap raises ZeroDivisionError for a gap of 0
RowHead ==
  /\ pc = "row"
  /\ steps' = steps \cup {"row"}
  /\ UNCHANGED elsewhere
  /\ IF FLess(start_y, FromInt(canvas_size[2]))
     THEN IF vertical_gap = BigZero THEN Abort
          ELSE /\ start_x' = RowOffset(start_y, vertical_gap, horizontal_gap)
               /\ pc' = "draw"
               /\ UNCHANGED <<status, body, contents, img, diagonal, canvas_size, canvas,
                              font_size, font, tried, text_width, text_height, horizontal_gap,
                              vertical_gap, start_y, rotated_canvas, region, overlay,
                              watermarked, output>>
     ELSE /\ pc' = "rotate"
          /\ UNCHANGED <<status, body, locals>>
  /\ UNCHANGED inputs

\* the inner loop: while start_x < canvas_size[0]: draw.text, start_x +=
\* horizontal_gap; after it start_y += vertical_gap.  A loop that makes no
\* progress is followed for MaxDraws draws.
DrawText ==
  /\ pc = "draw"
  /\ horizontal_gap # BigZero \/ Len(canvas) < MaxDraws
  /\ steps' = steps \cup {"draw"}
  /\ UNCHANGED elsewhere
  /\ IF FLess(start_x, FromInt(canvas_size[1]))
     THEN /\ canvas' = Append(canvas, [x |-> start_x, y |-> start_y, fill |-> Fill(req.opacity)])
          /\ start_x' = FAdd(start_x, horizontal_gap)
          /\ UNCHANGED <<pc, start_y>>
     ELSE /\ start_y' = FAdd(start_y, vertical_gap)
          /\ pc' = "row"
          /\ UNCHANGED <<canvas, start_x>>
  /\ UNCHANGED <<inputs, status, body, contents, img, diagonal, canvas_size, font_size, font,
                 tried, text_width, text_height, horizontal_gap, vertical_gap, rotated_canvas,
                 region, overlay, watermarked, output>>

\* rotated_canvas = canvas.rotate(45, resample=Image.BICUBIC, expand=False)
Rotate ==
  /\ pc = "rotate"
  /\ steps' = steps \cup {"rotate"}
  /\ UNCHANGED elsewhere
  /\ IF env.failAt = "rotate" THEN Abort
     ELSE
       /\ rotated_canvas' = Rotated(canvas, canvas_size, text_width, text_height)
       /\ pc' = "crop"
       /\ UNCHANGED <<status, body, contents, img, diagonal, canvas_size, canvas, font_size,
              font, tried, text_width, text_height, horizontal_gap, vertical_gap, start_x,
              start_y, region, overlay, watermarked, output>>
  /\ UNCHANGED inputs

\* region = rotated_canvas.crop((...))
CropRegion ==
  /\ pc = "crop"
  /\ steps' = steps \cup {"crop"}
  /\ UNCHANGED elsewhere
  /\ IF env.failAt = "crop" THEN Abort
     ELSE
       /\ region' = Crop(rotated_canvas, CropBox(diagonal, img.w, img.h))
       /\ pc' = "paste"
       /\ UNCHANGED <<status, body, contents, img, diagonal, canvas_size, canvas, font_size,
              font, tried, text_width, text_height, horizontal_gap, vertical_gap, start_x,
              start_y, rotated_canvas, overlay, watermarked, output>>
  /\ UNCHANGED inputs

\* overlay = Image.new('RGBA', img.size, (255, 255, 255, 0)); overlay.paste(region, (0, 0), region)
PasteRegion ==
  /\ pc = "paste"
  /\ steps' = steps \cup {"paste"}
  /\ UNCHANGED elsewhere
  /\ IF env.failAt = "paste" THEN Abort
     ELSE
       /\ overlay' = Paste(img.w, img.h, region)
       /\ pc' = "composite"
       /\ UNCHANGED <<status, body, contents, img, diagonal, canvas_size, canvas, font_size,
              font, tried, text_width, text_height, horizontal_gap, vertical_gap, start_x,
              start_y, rotated_canvas, region, watermarked, output>>
  /\ UNCHANGED inputs

\* img = img.convert('RGBA') unless it is RGBA; watermarked = Image.alpha_composite(img, overlay)
Composite ==
  /\ pc = "composite"
  /\ steps' = steps \cup {"composite"}
  /\ UNCHANGED elsewhere
  /\ IF env.failAt = "composite" THEN Abort
     ELSE
       /\ img' = IF img.mode # "RGBA" THEN ConvertRGBA(img) ELSE img
       /\ watermarked' = AlphaComposite(img', overlay)
       /\ pc' = "convert"
       /\ UNCHANGED <<status, body, contents, diagonal, canvas_size, canvas, font_size,
              font, tried, text_width, text_height, horizontal_gap, vertical_gap, start_x,
              start_y, rotated_canvas, region, overlay, output>>
  /\ UNCHANGED inputs

\* if format.lower() in ["jpg", "jpeg"]: watermarked = watermarked.convert('RGB')
Convert ==
  /\ pc = "convert"
  /\ steps' = steps \cup {"convert"}
  /\ UNCHANGED elsewhere
  /\ IF env.failAt = "convert" /\ IsJpeg(req.format) THEN Abort
     ELSE
       /\ watermarked' = IF IsJpeg(req.format) THEN ConvertRGB(watermarked) ELSE watermarked
       /\ pc' = "save"
       /\ UNCHANGED <<status, body, contents, img, diagonal, canvas_size, canvas, font_size,
              font, tried, text_width, text_height, horizontal_gap, vertical_gap, start_x,
              start_y, rotated_canvas, region, overlay, output>>
  /\ UNCHANGED inputs

\* watermarked.save(output, format=..., quality=...) into a BytesIO
Save ==
  /\ pc = "save"
  /\ steps' = steps \cup {"save"}
  /\ UNCHANGED elsewhere
  /\ IF env.failAt = "save" THEN Abort
     ELSE
       /\ output' = Encode(watermarked, req.format)
       /\ pc' = "respond"
       /\ UNCHANGED <<status, body, contents, img, diagonal, canvas_size, canvas, font_size,
              font, tried, text_width, text_height, horizontal_gap, vertical_gap, start_x,
              start_y, rotated_canvas, region, overlay, watermarked>>
  /\ UNCHANGED inputs

\* return Response(content=output.getvalue(), ...)
Respond ==
  /\ pc = "respond"
  /\ steps' = steps \cup {"respond"}
  /\ UNCHANGED elsewhere
  /\ pc' = "done"
  /\ status' = 200
  /\ body' = output
  /\ UNCHANGED <<inputs, locals>>

Next ==
  \/ Validate
  \/ Read
  \/ Open
  \/ NewCanvas
  \/ FontSize
  \/ TrueType
  \/ LoadDefault
  \/ Measure
  \/ Gaps
  \/ RowHead
  \/ DrawText
  \/ Rotate
  \/ CropRegion
  \/ PasteRegion
  \/ Composite
  \/ Convert
  \/ Save
  \/ Respond

Spec == Init /\ [][Next]_vars


\* ------------------------------------------- /crop and /convert/base64
\* The two handlers share the variables req, image, pc, status, body, steps,
\* contents, img and output with add_watermark; a request goes to one handler.

\* exceptions: the HTTPException of a check, or any other exception
HTTPException(code) == [type |-> "HTTPException", status_code |-> code]
LibraryError == [type |-> "Exception", status_code |-> 0]

\* crop_image: except Exception as e: raise HTTPException(status_code=500, ...);
\* HTTPException is an Exception, so the handler's own 400 is caught as well
CropExcept(e) == 500

\* convert_image_base64: except HTTPException: raise, then
\* except Exception as e: raise HTTPException(status_code=500, ...)
Base64Except(e) == IF e.type = "HTTPException" THEN e.status_code ELSE 500

\* the coordinate check of crop_image
CoordinatesInvalid(r, im) ==
  \/ r.left < 0 \/ r.top < 0 \/ r.right > im.w \/ r.bottom > im.h
  \/ r.left >= r.right \/ r.top >= r.bottom

\* background = Image.new('RGB', size, (255, 255, 255)); background.paste(im, mask=alpha)
WhiteBackground(im) ==
  [w |-> im.w, h |-> im.h, mode |-> "RGB",
   px |-> [p \in Pixels(im.w, im.h) |->
             [c \in 1..3 |-> Div255(255 * (255 - im.px[p][4]) + im.px[p][c] * im.px[p][4])]]]

\* the image that is saved: for jpg and jpeg an image with alpha goes on white
Saved(im, f) == IF IsJpeg(f) /\ im.mode = "RGBA" THEN WhiteBackground(im) ELSE im

\* the form fields of /crop and of /convert/base64
CropReq(l, t, r, b, f, q) ==
  [path |-> "/crop", left |-> l, top |-> t, right |-> r, bottom |-> b, format |-> f,
   quality |-> q]
Base64Req(uri, data, f, q) ==
  [path |-> "/convert/base64", image_base64 |-> [uri |-> uri, data |-> data], format |-> f,
   quality |-> q]

\* image_base64 with or without a data URI prefix, a prefix without its comma,
\* and base64 text that decodes or has a wrong padding
UriForms == {"raw", "data:image/png;base64,", "data:image/png;base64"}
DataForms == {"padded", "badpadding"}

CropScenarios ==
  { Scenario(CropReq(l, t, r, b, "png", 85), [NominalUpload EXCEPT !.w = w, !.h = h],
             NominalEnv) :
      l \in -1..MaxDim, t \in -1..MaxDim, r \in 0..(MaxDim + 1), b \in 0..(MaxDim + 1),
      w \in {2, MaxDim}, h \in {2, MaxDim} }
    \cup
  { Scenario(CropReq(0, 0, 1, b, f, q), [u EXCEPT !.mode = m, !.seed = k], NominalEnv) :
      b \in {1, 2}, f \in {"png", "jpg", "JPEG", "webp", "avif", "gif"}, q \in {0, 1, 100, 101},
      u \in {NominalUpload, CorruptUpload}, m \in {"L", "RGB", "RGBA"}, k \in 0..MaxSeed }

Base64Scenarios ==
  { Scenario(Base64Req(uri, data, f, q), [u EXCEPT !.mode = m, !.seed = k], NominalEnv) :
      uri \in UriForms, data \in DataForms, f \in {"png", "jpg", "gif"}, q \in {0, 85},
      u \in {NominalUpload, CorruptUpload}, m \in {"RGB", "RGBA"}, k \in 0..MaxSeed }

\* the locals of add_watermark, which the two handlers leave alone
watermark_locals ==
  <<diagonal, canvas_size, canvas, font_size, font, tried, text_width, text_height,
    horizontal_gap, vertical_gap, start_x, start_y, rotated_canvas, region, overlay,
    watermarked>>

CropInit ==
  /\ \E s \in CropScenarios \cup Base64Scenarios :
       req = s.req /\ image = s.upload /\ env = s.env
  /\ pc = IF req.path = "/crop" THEN "crop_validate" ELSE "b64_validate"
  /\ status = 0
  /\ body = <<>>
  /\ steps = {}
  /\ contents = <<>>
  /\ img = NoImage
  /\ diagonal = 0
  /\ canvas_size = <<0, 0>>
  /\ canvas = <<>>
  /\ font_size = None
  /\ font = ""
  /\ tried = <<>>
  /\ text_width = 0
  /\ text_height = 0
  /\ horizontal_gap = BigZero
  /\ vertical_gap = BigZero
  /\ start_x = BigZero
  /\ start_y = BigZero
  /\ rotated_canvas = NoImage
  /\ region = NoImage
  /\ overlay = NoImage
  /\ watermarked = NoImage
  /\ output = <<>>
  /\ b64data = <<>>
  /\ cropped_img = NoImage

\* an exception e leaves the try block of a handler: the answer is the status
\* its except clauses give, without a body
Raise(code) ==
  /\ pc' = "done"
  /\ status' = code
  /\ body' = <<>>
  /\ UNCHANGED <<contents, img, output, b64data, cropped_img>>

\* crop_image: the format and quality checks that precede the try block
CropValidate ==
  /\ pc = "crop_validate"
  /\ steps' = steps \cup {"crop_validate"}
  /\ IF FormatInvalid(req) \/ QualityInvalid(req)
     THEN Raise(400)
     ELSE /\ pc' = "crop_read"
          /\ UNCHANGED <<status, body, contents, img, output, b64data, cropped_img>>
  /\ UNCHANGED <<inputs, watermark_locals>>

\* contents = await image.read(); img = Image.open(BytesIO(contents))
CropOpen ==
  /\ pc = "crop_read"
  /\ steps' = steps \cup {"crop_read"}
  /\ IF ~image.ok
     THEN Raise(CropExcept(LibraryError))
     ELSE /\ contents' = image
          /\ img' = ImageOpen(image)
          /\ pc' = "crop_check"
          /\ UNCHANGED <<status, body, output, b64data, cropped_img>>
  /\ UNCHANGED <<inputs, watermark_locals>>

\* the coordinate check, inside the try block, then img.crop
CropApply ==
  /\ pc = "crop_check"
  /\ steps' = steps \cup {"crop_check"}
  /\ IF CoordinatesInvalid(req, img)
     THEN Raise(CropExcept(HTTPException(400)))
     ELSE /\ cropped_img' = Crop(img, <<req.left, req.top, req.right, req.bottom>>)
          /\ pc' = "crop_save"
          /\ UNCHANGED <<status, body, contents, img, output, b64data>>
  /\ UNCHANGED <<inputs, watermark_locals>>

\* the white background for jpg, cropped_img.save and the Response
CropSave ==
  /\ pc = "crop_save"
  /\ steps' = steps \cup {"crop_save"}
  /\ cropped_img' = Saved(cropped_img, req.format)
  /\ output' = Encode(cropped_img', req.format)
  /\ pc' = "done"
  /\ status' = 200
  /\ body' = output'
  /\ UNCHANGED <<contents, img, b64data>>
  /\ UNCHANGED <<inputs, watermark_locals>>

\* convert_image_base64: the format and quality checks that precede the try block
Base64Validate ==
  /\ pc = "b64_validate"
  /\ steps' = steps \cup {"b64_validate"}
  /\ IF FormatInvalid(req) \/ QualityInvalid(req)
     THEN Raise(400)
     ELSE /\ pc' = "b64_uri"
          /\ UNCHANGED <<status, body, contents, img, output, b64data, cropped_img>>
  /\ UNCHANGED <<inputs, watermark_locals>>

\* if b64data.startswith("data:"): b64data = b64data.split(",", 1)[1]
Base64Uri ==
  /\ pc = "b64_uri"
  /\ steps' = steps \cup {"b64_uri"}
  /\ IF req.image_base64.uri = "data:image/png;base64"
     THEN Raise(Base64Except(HTTPException(400)))
     ELSE /\ b64data' = <<req.image_base64.data>>
          /\ pc' = "b64_decode"
          /\ UNCHANGED <<status, body, contents, img, output, cropped_img>>
  /\ UNCHANGED <<inputs, watermark_locals>>

\* contents = base64.b64decode(b64data)
Base64Decode ==
  /\ pc = "b64_decode"
  /\ steps' = steps \cup {"b64_decode"}
  /\ IF b64data[1] = "badpadding"
     THEN Raise(Base64Except(HTTPException(400)))
     ELSE /\ contents' = image
          /\ pc' = "b64_open"
          /\ UNCHANGED <<status, body, img, output, b64data, cropped_img>>
  /\ UNCHANGED <<inputs, watermark_locals>>

\* img = Image.open(BytesIO(contents)), the white background for jpg, img.save
\* and the Response
Base64Save ==
  /\ pc = "b64_open"
  /\ steps' = steps \cup {"b64_open"}
  /\ IF ~contents.ok
     THEN Raise(Base64Except(LibraryError))
     ELSE /\ img' = Saved(ImageOpen(contents), req.format)
          /\ output' = Encode(img', req.format)
          /\ pc' = "done"
          /\ status' = 200
          /\ body' = output'
          /\ UNCHANGED <<contents, b64data, cropped_img>>
  /\ UNCHANGED <<inputs, watermark_locals>>

CropNext ==
  \/ CropValidate
  \/ CropOpen
  \/ CropApply
  \/ CropSave
  \/ Base64Validate
  \/ Base64Uri
  \/ Base64Decode
  \/ Base64Save

CropSpec == CropInit /\ [][CropNext]_vars


\* ================================================================ the claims
Responded == pc = "done"

\* the steps that touch the upload or produce image data
ImageSteps ==
  {"read", "open", "canvas", "fontsize", "truetype", "default", "measure", "gaps", "row",
   "draw", "rotate", "crop", "paste", "composite", "convert", "save", "respond"}

\* a request with a parameter outside its documented range
DocumentedFormats == {"avif", "webp", "png", "jpg", "jpeg"}
OutOfRange ==
  \/ Lower(req.format) \notin DocumentedFormats
  \/ req.quality < 1 \/ req.quality > 100
  \/ req.opacity < 0 \/ req.opacity > 100
  \/ req.density < 1 \/ req.density > 50
  \/ (Len(req.font_size) = 1 /\ req.font_size[1] <= 0)

\* C1: a request with an invalid format, quality, opacity, density or explicit
\* font size never reads or decodes the upload, never renders or encodes, and
\* once answered is answered with the validation error 400 and no image bytes.
C1_ValidationFailsFast ==
  OutOfRange =>
    /\ steps \cap ImageSteps = {}
    /\ contents = <<>> /\ img = NoImage /\ canvas = <<>> /\ output = <<>>
    /\ body = <<>>
    /\ pc \in {"validate", "done"}
    /\ (pc = "done" => status = 400)

\* C1 witness: an opacity of 1.01 with every other parameter in range was rejected
C1_Witness ==
  /\ req.opacity = 101 /\ req.density = 50 /\ req.quality = 100 /\ req.format = "JPG"
  /\ req.font_size = None
  /\ image.ok
  /\ pc = "done" /\ status = 400

\* the steps a successful request has run (the two font steps are alternatives)
RequiredSteps ==
  {"validate", "read", "open", "canvas", "fontsize", "truetype", "measure", "gaps", "row",
   "rotate", "crop", "paste", "composite", "convert", "save", "respond"}

\* the library call of a step that has run raised
Raised ==
  \/ "open" \in steps /\ ~image.ok
  \/ env.failAt \in steps /\ (env.failAt = "convert" => Lower(req.format) \in {"jpg", "jpeg"})
  \/ "default" \in steps /\ ~env.defaultOK
  \/ "truetype" \in steps /\ font_size[1] <= 0 /\ env.sizeZero = "ValueError"
  \/ "row" \in steps /\ text_height = 0 /\ canvas_size[2] > 0

\* C2: once a step after validation has raised, the request is over with the
\* error status 500 and no image bytes; image bytes are in a response only with
\* status 200, after every step up to the encoding has run and none has raised;
\* undecodable bytes end in the error response.
C2_FailureAborts ==
  /\ Raised => pc = "done" /\ status = 500 /\ body = <<>>
  /\ body # <<>> => /\ pc = "done" /\ status = 200
                    /\ RequiredSteps \subseteq steps
                    /\ ~Raised
                    /\ body = output /\ Len(output) = 1
                    /\ output[1].image = watermarked
  /\ (pc = "done" /\ ~OutOfRange /\ ~image.ok) => status = 500 /\ body = <<>>

\* C2 witness: an upload that cannot be decoded was answered with the error
C2_Witness ==
  /\ ~image.ok /\ "open" \in steps /\ env.failAt = "none"
  /\ pc = "done" /\ status = 500 /\ body = <<>>

\* the least r with r * r >= n
CeilSqrt(n) == CHOOSE r \in 0..n : r * r >= n /\ (r = 0 \/ (r - 1) * (r - 1) < n)

CanvasMade == "canvas" \in steps /\ env.failAt # "canvas"

\* C3 as claimed: the canvas is square with side 2 * ceil(sqrt(W^2 + H^2))
C3_CanvasSideCeil ==
  CanvasMade =>
    /\ canvas_size[1] = 2 * CeilSqrt(img.w * img.w + img.h * img.h)
    /\ canvas_size[2] = canvas_size[1]

\* C3 as amended: the canvas is square with side 2 * floor(sqrt(W^2 + H^2)):
\* the side is even and its half d satisfies d^2 <= W^2 + H^2 < (d + 1)^2
C3_CanvasSideFloor ==
  CanvasMade =>
    /\ canvas_size[2] = canvas_size[1]
    /\ canvas_size[1] % 2 = 0
    /\ LET d == canvas_size[1] \div 2
       IN  /\ d = diagonal
           /\ d * d <= img.w * img.w + img.h * img.h
           /\ img.w * img.w + img.h * img.h < (d + 1) * (d + 1)

\* C3 witness: a 1 x 1 image, whose diagonal is no integer, got a 2 x 2 canvas
C3_Witness == CanvasMade /\ img.w = 1 /\ img.h = 1 /\ canvas_size = <<2, 2>>


\* the crop has been taken
Cropped == pc \in {"paste", "composite", "convert", "save", "respond"} \/ "paste" \in steps

\* C4 as claimed: the window cropped from the rotated canvas has the width and
\* the height of the image and is centred on the canvas centre, for odd sizes too
C4_WindowIsImageSized ==
  Cropped =>
    /\ region.w = img.w /\ region.h = img.h
    /\ 2 * (diagonal - img.w \div 2) + region.w = canvas_size[1]
    /\ 2 * (diagonal - img.h \div 2) + region.h = canvas_size[2]

\* C5: the canvas is large enough for the rotation: the window of the image's
\* size centred on the canvas lies within [0, 2 * diagonal] on both axes, the
\* half side of the canvas exceeds the half diagonal of the window, and every
\* pixel of the window (widened to whole pixels) is resampled from a pixel
\* inside the canvas by the rotation.
C5_CanvasCoversWindow ==
  CanvasMade =>
    /\ canvas_size[1] = 2 * diagonal /\ canvas_size[2] = 2 * diagonal
    /\ 2 * diagonal - img.w >= 0 /\ 2 * diagonal + img.w <= 2 * canvas_size[1]
    /\ 2 * diagonal - img.h >= 0 /\ 2 * diagonal + img.h <= 2 * canvas_size[2]
    /\ canvas_size[1] * canvas_size[1] > img.w * img.w + img.h * img.h
    /\ \A x \in (diagonal - (img.w + 1) \div 2)..(diagonal + (img.w + 1) \div 2 - 1),
          y \in (diagonal - (img.h + 1) \div 2)..(diagonal + (img.h + 1) \div 2 - 1) :
         InCanvas(canvas_size, RotateSource(canvas_size, x, y))
    /\ Cropped => \A p \in DOMAIN region.px : region.px[p][1] = 255

\* C5 witness: the window of a 3 x 3 image was cropped from its 8 x 8 canvas
C5_Witness == Cropped /\ img.w = 3 /\ img.h = 3 /\ canvas_size = <<8, 8>> /\ region.w = 2

\* two draws of a text measuring tw x th ink no common point: whole pixels lie
\* between them, or the exact positions are at least the text's measure apart
Apart(a, b, tw, th) ==
  \/ Floor(a.x) + tw < Floor(b.x) \/ Floor(b.x) + tw < Floor(a.x)
  \/ Floor(a.y) + th < Floor(b.y) \/ Floor(b.y) + th < Floor(a.y)
  \/ ~BigLess(b.x, BigAdd(a.x, FromInt(tw))) \/ ~BigLess(a.x, BigAdd(b.x, FromInt(tw)))
  \/ ~BigLess(b.y, BigAdd(a.y, FromInt(th))) \/ ~BigLess(a.y, BigAdd(b.y, FromInt(th)))

\* two draws ink no common pixel
PixelsApart(a, b, tw, th) ==
  \/ Floor(a.x) + tw <= Floor(b.x) \/ Floor(b.x) + tw <= Floor(a.x)
  \/ Floor(a.y) + th <= Floor(b.y) \/ Floor(b.y) + th <= Floor(a.y)

\* the gaps have just been computed for a text of positive measured size
GapsSet == pc = "row" /\ canvas = <<>> /\ text_width > 0 /\ text_height > 0

\* C6: for a text of positive measured size and every density the gaps are
\* max(metric * 45 / d, metric * 1.2), hence at least 1.2 times the metric, and
\* a tile just drawn overlaps none of the tiles drawn before it.
C6_NoTileOverlap ==
  /\ GapsSet =>
       /\ horizontal_gap = FMax(FMul(text_width, FDiv(45, req.density)), FMul(text_width, OnePointTwo))
       /\ vertical_gap = FMax(FMul(text_height, FDiv(45, req.density)), FMul(text_height, OnePointTwo))
       /\ ~FLess(horizontal_gap, FMul(text_width, OnePointTwo))
       /\ ~FLess(vertical_gap, FMul(text_height, OnePointTwo))
  /\ (pc = "draw" /\ text_width > 0 /\ text_height > 0) =>
       \A i \in 1..(Len(canvas) - 1) :
         /\ Apart(canvas[i], canvas[Len(canvas)], text_width, text_height)
         /\ PixelsApart(canvas[i], canvas[Len(canvas)], text_width, text_height)

\* C6 witness: at density 50, where the floor of 1.2 decides the gaps, several
\* rows of several tiles were drawn
C6_Witness ==
  /\ pc = "rotate" /\ req.density = 50 /\ text_width = 2 /\ text_height = 2
  /\ Len(canvas) >= 6
  /\ horizontal_gap = FMul(2, FDiv(12, 10))

\* C7 as claimed: with the canvas and the text metrics fixed, a lower density
\* never draws more tiles than the request's density drew
C7_CountMonotone ==
  (pc = "rotate" /\ text_width > 0 /\ text_height > 0) =>
    \A d \in 1..req.density :
      TileCount(canvas_size, text_width, text_height, d) <= Len(canvas)

\* the font size has been resolved
FontSized == "truetype" \in steps

\* C8 as claimed: the resolved font size is the explicit one when given, and
\* otherwise floor(max(W, H) / 20) raised to at least 1; it is never below 1
C8_FontSizeAtLeastOne ==
  FontSized =>
    /\ font_size[1] >= 1
    /\ req.font_size # None => font_size = req.font_size
    /\ req.font_size = None =>
         font_size[1] = Max2(1, Max2(img.w, img.h) \div 20)

\* the base image as RGBA: grey and RGB pixels are opaque
BaseRGBA(x, y) ==
  LET v == DecodedPixel(image, x, y)
  IN  CASE image.mode = "L" -> <<v[1], v[1], v[1], 255>>
        [] image.mode = "RGB" -> <<v[1], v[2], v[3], 255>>
        [] OTHER -> v

\* C9: with opacity 0 the overlay is transparent everywhere and every pixel
\* of the composited result is the pixel of the base image.
C9_ZeroOpacityIdentity ==
  (pc = "convert" /\ req.opacity = 0) =>
    /\ watermarked.w = image.w /\ watermarked.h = image.h
    /\ \A p \in Pixels(image.w, image.h) :
         /\ overlay.px[p][4] = 0
         /\ watermarked.px[p] = BaseRGBA(p[1], p[2])

\* C9 witness: tiles were drawn with opacity 0 over a 3 x 3 image with
\* transparent, half transparent and opaque pixels, and composited
C9_Witness ==
  /\ pc = "convert" /\ req.opacity = 0 /\ Len(canvas) > 0
  /\ image.mode = "RGBA" /\ image.w = 3 /\ image.h = 3
  /\ \E p \in DOMAIN region.px : region.px[p] = <<255, 255, 255, 0>>

\* a pixel blended against opaque white, weighted by its alpha
OnWhite(v) == [c \in 1..3 |-> Div255(v[c] * v[4] + 255 * (255 - v[4]))]

\* C10 as claimed: for jpg and jpeg every pixel of the composited RGBA result
\* is blended against white by its alpha before the alpha band is dropped
C10_FlattenOnWhite ==
  (pc = "save" /\ Lower(req.format) \in {"jpg", "jpeg"}) =>
    \A p \in Pixels(img.w, img.h) :
      watermarked.px[p] = OnWhite(Over(img.px[p], overlay.px[p]))

\* the text has been measured and its width or its height is zero
ZeroMeasure == "measure" \in steps /\ (text_width = 0 \/ text_height = 0)

\* C11 as claimed: a text measuring zero is rejected before the loops, so the
\* loops are never entered with a gap of 0; each pass of either loop advances
\* its coordinate, so the loops end; every drawn position lies on the canvas
C11_LoopsEndInBounds ==
  /\ ZeroMeasure => /\ pc \notin {"row", "draw"}
                    /\ steps \cap {"row", "draw"} = {}
  /\ pc \in {"row", "draw"} => vertical_gap # BigZero /\ horizontal_gap # BigZero
  /\ pc = "draw" /\ canvas # <<>> =>
       /\ Floor(canvas[Len(canvas)].x) < canvas_size[1]
       /\ Floor(canvas[Len(canvas)].y) < canvas_size[2]

\* the tile drawn last opens a row
OpensRow ==
  /\ pc = "draw" /\ canvas # <<>>
  /\ Len(canvas) > 1 => canvas[Len(canvas) - 1].y # canvas[Len(canvas)].y

\* the first tile of the row drawn before the row of the tile drawn last
PreviousRowHead ==
  LET y == canvas[Len(canvas) - 1].y
  IN  canvas[CHOOSE i \in 1..(Len(canvas) - 1) :
               canvas[i].y = y /\ \A j \in 1..(i - 1) : canvas[j].y # y]

\* C12 as claimed: tiles follow each other left to right within a row and
\* rows follow each other top to bottom, one gap apart; the row at y = 0 starts
\* at horizontal_gap / 2 and consecutive rows alternate between the offsets
\* horizontal_gap / 2 and 0 (where every row holds a tile, half a gap being
\* less than the canvas width)
C12_RowsAlternate ==
  (pc = "draw" /\ canvas # <<>> /\ text_width > 0 /\ text_height > 0
     /\ FLess(FHalf(horizontal_gap), FromInt(canvas_size[1]))) =>
    LET last == canvas[Len(canvas)]
    IN  IF OpensRow
        THEN /\ last.x \in {FHalf(horizontal_gap), BigZero}
             /\ Len(canvas) = 1 => last.x = FHalf(horizontal_gap) /\ last.y = BigZero
             /\ Len(canvas) > 1 =>
                  /\ last.y = FAdd(canvas[Len(canvas) - 1].y, vertical_gap)
                  /\ last.x # PreviousRowHead.x
        ELSE /\ last.y = canvas[Len(canvas) - 1].y
             /\ last.x = FAdd(canvas[Len(canvas) - 1].x, horizontal_gap)

\* a tile has been drawn in this step or before
Drawn == pc \in {"draw", "row", "rotate"} /\ canvas # <<>>

\* C13 as claimed: every tile is drawn white with the alpha round(255 * opacity),
\* the level nearest to the product (either neighbour at a tie), within 0..255
C13_AlphaRounded ==
  Drawn =>
    \A i \in DOMAIN canvas :
      LET f == canvas[i].fill
      IN  /\ <<f[1], f[2], f[3]>> = <<255, 255, 255>>
          /\ f[4] \in 0..255
          /\ 100 * f[4] - 255 * req.opacity \in -50..50

\* C13 as amended: every tile is drawn white with the alpha floor(255 * opacity),
\* the product truncated by int(), within 0..255
C13_AlphaTruncated ==
  Drawn =>
    \A i \in DOMAIN canvas :
      LET f == canvas[i].fill
      IN  /\ <<f[1], f[2], f[3]>> = <<255, 255, 255>>
          /\ f[4] \in 0..255
          /\ 100 * f[4] <= 255 * req.opacity
          /\ 255 * req.opacity < 100 * (f[4] + 1)

\* C13 witness: at the default opacity 0.5 the tiles were drawn with alpha 127
C13_Witness ==
  /\ pc = "rotate" /\ req.opacity = 50 /\ Len(canvas) >= 2
  /\ \A i \in DOMAIN canvas : canvas[i].fill = <<255, 255, 255, 127>>

\* the named font loads at the resolved size
Loads(name) == name \in env.installed /\ font_size[1] > 0

\* the request ended with the error while the font was being resolved
FailedInFonts ==
  pc = "done" /\ status = 500 /\ "truetype" \in steps /\ "measure" \notin steps

\* C14 as claimed: the candidates are tried in the order LiberationSans-Regular,
\* DejaVuSans, arial; the first that loads is used and none is tried after it;
\* the built-in default is used when all three have failed; a candidate that
\* fails to load never ends the request, which fails during font resolution
\* only when the built-in default is unavailable too
C14_FontFallback ==
  /\ Len(tried) <= Len(FontCandidates)
  /\ \A i \in DOMAIN tried : tried[i] = FontCandidates[i]
  /\ \A i \in 1..(Len(tried) - 1) : ~Loads(tried[i])
  /\ font \notin {"", "default"} =>
       /\ tried # <<>> /\ font = tried[Len(tried)] /\ Loads(font)
  /\ font = "default" =>
       /\ tried = FontCandidates
       /\ \A i \in DOMAIN tried : ~Loads(tried[i])
  /\ "measure" \in steps => font # ""
  /\ FailedInFonts =>
       /\ ~env.defaultOK
       /\ tried = FontCandidates
       /\ "default" \in steps

\* the decoded upload of a /crop request and its coordinates do not fit
BadCoordinates ==
  /\ req.path = "/crop" /\ ~FormatInvalid(req) /\ ~QualityInvalid(req) /\ image.ok
  /\ \/ req.left < 0 \/ req.top < 0 \/ req.right > image.w \/ req.bottom > image.h
     \/ req.left >= req.right \/ req.top >= req.bottom

\* a /convert/base64 request with a data URI without comma or undecodable base64
BadBase64 ==
  /\ req.path = "/convert/base64" /\ ~FormatInvalid(req) /\ ~QualityInvalid(req)
  /\ \/ req.image_base64.uri = "data:image/png;base64"
     \/ req.image_base64.data = "badpadding"

\* C15 as claimed: a /crop request with coordinates that are invalid for the
\* decoded image is answered with 400, not with 500, as a /convert/base64
\* request with a bad data URI or bad base64 is
C15_CropAnswers400 ==
  pc = "done" =>
    /\ BadCoordinates => status = 400 /\ body = <<>>
    /\ BadBase64 => status = 400 /\ body = <<>>

====
